---- MODULE Spec2Model ----
(***************************************************************************)
(* Model of pixelart.py: the per-region colour estimate                    *)
(* (get_average_color), the hex-grid sampler (sample_colors), the palette  *)
(* reducer (reduce_colors) and the pipeline (pixelate_image).              *)
(***************************************************************************)
EXTENDS Integers, Sequences, FiniteSets, TLC

(***************************************************************************)
(* Bounds of the model.                                                    *)
(***************************************************************************)
MaxRegion == 4
MaxWidth == 6
MaxHeight == 4
MaxNeg == 2
MaxCells == 4
MaxColors == 3

(***************************************************************************)
(* Python floats are IEEE-754 doubles.  A non-negative real x below 2^10   *)
(* is held as the natural number x * 2^FracBits, written in NumLimbs limbs *)
(* of LimbBits bits, least significant limb first.  Every double of        *)
(* magnitude in [2^-4, 2^10) is exact in this form, and so is every        *)
(* product of one with a channel value.                                    *)
(***************************************************************************)
MantBits == 53
LimbBits == 11
FracBits == MantBits + 3
NumLimbs == (FracBits \div LimbBits) + 1
Limbs == 1..NumLimbs

PowTab == <<1, 2, 4, 8, 16, 32, 64, 128, 256, 512, 1024, 2048>>
\* 2^n for 0 <= n <= LimbBits
Pow2(n) == PowTab[n + 1]

Base == Pow2(LimbBits)

RECURSIVE Carry(_, _, _)
\* Carry (or borrow) propagation: the limbs of the number whose limb sums are a.
Carry(a, l, c) ==
    IF l > NumLimbs THEN << >>
    ELSE <<(a[l] + c) % Base>> \o Carry(a, l + 1, (a[l] + c) \div Base)

\* Bit p (weight 2^(p - FracBits)) of a limb vector.
Bit(a, p) == (a[(p \div LimbBits) + 1] \div Pow2(p % LimbBits)) % 2

\* The limb vector with the single bit p set.
PowBit(p) ==
    [l \in Limbs |-> IF l = (p \div LimbBits) + 1 THEN Pow2(p % LimbBits) ELSE 0]

\* Exact sum, difference (a >= b) and product with a Python int 0 <= n < 2^10.
BitAdd(a, b) == Carry([l \in Limbs |-> a[l] + b[l]], 1, 0)
BitSub(a, b) == Carry([l \in Limbs |-> a[l] - b[l]], 1, 0)
BitMulInt(a, n) == Carry([l \in Limbs |-> a[l] * n], 1, 0)

\* float(n) of a Python int 0 <= n < 2^10.
FromInt(n) == BitMulInt(PowBit(FracBits), n)

\* The position of the leading one bit, -1 for zero.
TopBit(a) ==
    LET L == {l \in Limbs : a[l] # 0}
    IN  IF L = {} THEN -1
        ELSE LET l == CHOOSE x \in L : \A y \in L : y <= x
                 q == CHOOSE x \in 0..(LimbBits - 1) :
                        Pow2(x) <= a[l] /\ a[l] < Pow2(x + 1)
             IN  (l - 1) * LimbBits + q

\* Whether any of the lowest n bits is set.
LowBitsSet(a, n) ==
    \E l \in Limbs :
        LET lo == (l - 1) * LimbBits
        IN  IF lo >= n THEN FALSE
            ELSE IF lo + LimbBits <= n THEN a[l] # 0
            ELSE a[l] % Pow2(n - lo) # 0

\* Rounding of an exact result to the nearest double, ties to even.
RoundDouble(a) ==
    LET cut == TopBit(a) + 1 - MantBits
    IN  IF cut <= 0 THEN a
        ELSE LET kept == [l \in Limbs |->
                            LET lo == (l - 1) * LimbBits
                            IN  IF lo >= cut THEN a[l]
                                ELSE IF lo + LimbBits <= cut THEN 0
                                ELSE (a[l] \div Pow2(cut - lo)) * Pow2(cut - lo)]
                 up == Bit(a, cut - 1) = 1
                        /\ (LowBitsSet(a, cut - 1) \/ Bit(a, cut) = 1)
             IN  IF up THEN BitAdd(kept, PowBit(cut)) ELSE Carry(kept, 1, 0)

\* int(x) of a non-negative double: truncation.  The integer part lies in
\* the top limb.
FloatToInt(a) == a[NumLimbs] \div Pow2(FracBits % LimbBits)

FloatAdd(a, b) == RoundDouble(BitAdd(a, b))
FloatSub(a, b) == RoundDouble(BitSub(a, b))
\* n * x for a Python int n and a double x.
FloatMulInt(n, x) == RoundDouble(BitMulInt(x, n))

\* The doubles the program is run with, as limb vectors: the default 0.5
\* (0x1.0p-1), the script's 0.9 (0x1.ccccccccccccdp-1), and 0.3
\* (0x1.3333333333333p-2) as one more value of the documented range 0-1.
Coef05 == <<0, 0, 0, 0, 0, 1>>
Coef09 == <<1640, 1228, 409, 819, 1638, 1>>
Coef03 == <<1228, 409, 819, 1638, 1228, 0>>
Coefficients == {Coef05, Coef09, Coef03}

(***************************************************************************)
(* Colours are RGB triples of 8-bit channels.                              *)
(***************************************************************************)
Channels == 1..3
Abs(x) == IF x < 0 THEN -x ELSE x

\* line 56: int(avg * (1 - dominant_coefficient) + dom * dominant_coefficient)
MixChannel(avg, dom, d) ==
    FloatToInt(FloatAdd(FloatMulInt(avg, FloatSub(FromInt(1), d)),
                        FloatMulInt(dom, d)))

\* lines 52-58: dominant_color is avg_color, blended channel by channel
mixed_color(avg_color, d) ==
    [c \in Channels |-> MixChannel(avg_color[c], avg_color[c], d)]

\* A filter that drops the top-left pixel alone.
filtered_tail(pixels) == Tail(pixels)

\* line 19: the pixels that differ from the top-left pixel, in scan order
filtered(pixels) == SelectSeq(pixels, LAMBDA p : p # pixels[1])

\* line 30: all(abs(p - g) <= color_threshold for p, g in zip(pixel, group[0]))
Similar(pixel, anchor, color_threshold) ==
    \A c \in Channels : Abs(pixel[c] - anchor[c]) <= color_threshold

\* A grouping step that picks the closest matching anchor, not the first.
GroupStepBest(groups, pixel, color_threshold) ==
    LET M == {g \in 1..Len(groups) : Similar(pixel, groups[g][1], color_threshold)}
        D(g) == Abs(pixel[1] - groups[g][1][1]) + Abs(pixel[2] - groups[g][1][2])
                    + Abs(pixel[3] - groups[g][1][3])
    IN  IF M = {} THEN Append(groups, <<pixel>>)
        ELSE LET g == CHOOSE x \in M :
                        \A y \in M : D(x) < D(y) \/ (D(x) = D(y) /\ x <= y)
             IN  [groups EXCEPT ![g] = Append(@, pixel)]

\* lines 27-35: one iteration of the grouping loop
GroupStep(groups, pixel, color_threshold) ==
    LET M == {g \in 1..Len(groups) : Similar(pixel, groups[g][1], color_threshold)}
    IN  IF M = {} THEN Append(groups, <<pixel>>)
        ELSE LET g == CHOOSE x \in M : \A y \in M : x <= y
             IN  [groups EXCEPT ![g] = Append(@, pixel)]

RECURSIVE GroupAll(_, _, _)
\* lines 25-35: the whole grouping loop over the first n filtered pixels
GroupAll(fp, n, color_threshold) ==
    IF n = 0 THEN << >>
    ELSE GroupStep(GroupAll(fp, n - 1, color_threshold), fp[n], color_threshold)

\* line 38: max(color_groups, key=len) returns the first group of maximal length
LargestIndex(groups) ==
    CHOOSE g \in 1..Len(groups) :
        /\ \A h \in 1..Len(groups) : Len(groups[h]) <= Len(groups[g])
        /\ \A h \in 1..(g - 1) : Len(groups[h]) < Len(groups[g])

RECURSIVE ChannelSum(_, _, _)
ChannelSum(group, c, n) ==
    IF n = 0 THEN 0 ELSE group[n][c] + ChannelSum(group, c, n - 1)

\* lines 41-49: per-channel floor-division mean
AvgColor(group) ==
    [c \in Channels |-> ChannelSum(group, c, Len(group)) \div Len(group)]

\* lines 15-60 as a function of the region's pixels
GetAverageColor(pixels, d, color_threshold) ==
    LET fp == filtered(pixels)
    IN  IF fp = << >> THEN pixels[1]
        ELSE LET groups == GroupAll(fp, Len(fp), color_threshold)
             IN  mixed_color(AvgColor(groups[LargestIndex(groups)]), d)

(***************************************************************************)
(* Inputs of get_average_color.                                            *)
(***************************************************************************)
Palette == { <<0, 0, 0>>, <<3, 3, 3>>, <<5, 6, 5>>, <<255, 255, 250>> }
Thresholds == {0, 2, 3, 10}
Regions == UNION { [1..n -> Palette] : n \in 1..MaxRegion }
NoColor == <<0, 0, 0>>

(***************************************************************************)
(* The image collaborator: a decoded bitmap with a size and RGB pixels.    *)
(***************************************************************************)
ImgColors == << <<3, 3, 3>>, <<200, 6, 7>>, <<0, 0, 0>> >>
\* Pixel (x, y) of a pattern has the colour number (a*x + b*y) % m.
Patterns ==
    { [a |-> 0, b |-> 0, m |-> 1], [a |-> 1, b |-> 0, m |-> 2],
      [a |-> 0, b |-> 1, m |-> 2], [a |-> 1, b |-> 1, m |-> 3] }
Images ==
    { [width |-> w, height |-> h, pat |-> p] :
        w \in 1..MaxWidth, h \in 1..MaxHeight, p \in Patterns }
NoImage == [width |-> 1, height |-> 1, pat |-> [a |-> 0, b |-> 0, m |-> 1]]

\* A pixel of the image; Image.crop fills what lies outside it with black.
PixelAt(image, x, y) ==
    IF x >= 0 /\ x < image.width /\ y >= 0 /\ y < image.height
    THEN ImgColors[((image.pat.a * x + image.pat.b * y) % image.pat.m) + 1]
    ELSE <<0, 0, 0>>

\* lines 113 and 15: list(image.crop(box).getdata()), row by row
Crop(image, box) ==
    LET w == box[3] - box[1]
        h == box[4] - box[2]
    IN  IF w <= 0 \/ h <= 0 THEN << >>
        ELSE [k \in 1..(w * h) |->
                PixelAt(image, box[1] + ((k - 1) % w), box[2] + ((k - 1) \div w))]

\* Python's // on ints, b # 0: the floor of the quotient.
FloorDiv(a, b) == IF b > 0 THEN a \div b ELSE (0 - a) \div (0 - b)

\* The double 0.866 (0x1.bb645a1cac083p-1).
Hex866 == <<1048, 704, 1081, 278, 1499, 1>>

\* A cell height that rounds to the nearest integer where the code truncates.
HexHeightRounded(input_pixel_size) ==
    IF input_pixel_size >= 0
    THEN FloatToInt(BitAdd(FloatMulInt(input_pixel_size, Hex866), PowBit(FracBits - 1)))
    ELSE 0 - FloatToInt(BitAdd(FloatMulInt(0 - input_pixel_size, Hex866),
                               PowBit(FracBits - 1)))

\* lines 98, 108, 110: int(input_pixel_size * 0.866)
HexHeight(input_pixel_size) ==
    IF input_pixel_size >= 0
    THEN FloatToInt(FloatMulInt(input_pixel_size, Hex866))
    ELSE 0 - FloatToInt(FloatMulInt(0 - input_pixel_size, Hex866))

\* A crop box that steps down by the cell width where the code uses the height.
BoxSquare(i, j, input_pixel_size) ==
    << j * input_pixel_size,
       i * input_pixel_size,
       j * input_pixel_size + input_pixel_size,
       i * input_pixel_size + input_pixel_size >>

\* lines 107-112: the crop box of cell (i, j)
Box(i, j, input_pixel_size) ==
    << j * input_pixel_size,
       i * HexHeight(input_pixel_size),
       j * input_pixel_size + input_pixel_size,
       i * HexHeight(input_pixel_size) + HexHeight(input_pixel_size) >>

(***************************************************************************)
(* reduce_colors and its k-means collaborator.                             *)
(***************************************************************************)
\* lines 133-135
unique_colors(colors) ==
    UNION { {colors[r][c] : c \in 1..Len(colors[r])} : r \in 1..Len(colors) }

\* A test that clusters a grid of exactly k distinct colours as well.
fewer_colors_than(colors, k) == Cardinality(unique_colors(colors)) < k

\* line 138
no_reduction_needed(colors, k) == Cardinality(unique_colors(colors)) <= k

\* One cluster more than asked for.
n_clusters_plus_one(k) == k + 1

\* line 145: KMeans(n_clusters=num_colors, ...)
n_clusters(k) == k

RECURSIVE SetSum(_, _)
SetSum(S, c) ==
    IF S = {} THEN 0
    ELSE LET x == CHOOSE y \in S : TRUE IN x[c] + SetSum(S \ {x}, c)

\* cluster_centers_[l].astype(int): the truncated mean of the colours labelled
\* l; a mean that is a whole number may come out of the float arithmetic just
\* below it and truncate one lower (the clusters in down).
Center(U, labels, l, down) ==
    LET S == {u \in U : labels[u] = l}
    IN  [c \in Channels |->
            IF l \in down /\ SetSum(S, c) % Cardinality(S) = 0 /\ SetSum(S, c) > 0
            THEN (SetSum(S, c) \div Cardinality(S)) - 1
            ELSE SetSum(S, c) \div Cardinality(S)]

\* lines 149-150
ColorMap(U, labels, down) == [u \in U |-> Center(U, labels, labels[u], down)]

\* lines 153-156
ReducedGrid(colors, color_map) ==
    [r \in 1..Len(colors) |-> [c \in 1..Len(colors[r]) |-> color_map[colors[r][c]]]]

GridPalette == { <<3, 3, 3>>, <<200, 6, 7>>, <<0, 0, 0>> }
GridShapes ==
    { s \in (0..MaxCells) \X (1..MaxCells) : s[1] * s[2] <= MaxCells }
Grids == UNION { [1..s[1] -> [1..s[2] -> GridPalette]] : s \in GridShapes }

VARIABLES
    pixels,               \* get_average_color: list(image.getdata())
    dominant_coefficient, \* argument
    color_threshold,      \* argument
    background_color,     \* line 16
    filtered_pixels,      \* line 19
    color_groups,         \* line 25
    idx,                  \* position of the loop of line 26 in filtered_pixels
    largest_group,        \* line 38
    avg_color,            \* line 49
    ret,                  \* the returned colour
    pc,                   \* position in get_average_color
    file,                 \* what input_path holds: "ok", "missing", "corrupt"
    image,                \* the decoded image
    pixel_in_row,         \* argument
    num_colors,           \* argument: << >> is None, <<k>> is k
    input_pixel_size,     \* line 94
    samples_per_row,      \* line 97
    num_rows,             \* line 98
    i,                    \* row loop, line 103
    j,                    \* column loop, line 105
    box,                  \* line 112, << >> before the first crop
    row_colors,           \* line 104
    colors,               \* lines 101, 221
    reduced_colors,       \* what reduce_colors returned
    clustered,            \* whether KMeans.fit ran
    err,                  \* the exception raised, "none" if none
    failed_at,            \* the step that raised it
    completed,            \* the steps of pixelate_image that returned
    printed,              \* what the except clauses printed
    out_file,             \* output_path: "absent", "written", "truncated"
    ppc                   \* position in pixelate_image

avgVars == <<pixels, background_color, filtered_pixels, color_groups, idx,
             largest_group, avg_color, ret, pc>>
argVars == <<dominant_coefficient, color_threshold>>
sampleVars == <<input_pixel_size, samples_per_row, num_rows, i, j, box, row_colors>>
pipeVars == <<file, image, pixel_in_row, num_colors, colors, reduced_colors, clustered,
              err, failed_at, completed, printed, out_file, ppc>>
vars == <<avgVars, argVars, sampleVars, pipeVars>>

AvgIdle ==
    /\ pixels = << >>
    /\ background_color = NoColor
    /\ filtered_pixels = << >>
    /\ color_groups = << >>
    /\ idx = 1
    /\ largest_group = << >>
    /\ avg_color = NoColor
    /\ ret = NoColor
    /\ pc = "idle"

SampleIdle ==
    /\ input_pixel_size = 0
    /\ samples_per_row = 0
    /\ num_rows = 0
    /\ i = 0
    /\ j = 0
    /\ box = << >>
    /\ row_colors = << >>

PipeIdle ==
    /\ file = "ok"
    /\ image = NoImage
    /\ pixel_in_row = 1
    /\ num_colors = << >>
    /\ colors = << >>
    /\ reduced_colors = << >>
    /\ clustered = FALSE
    /\ err = "none"
    /\ failed_at = "none"
    /\ completed = {}
    /\ printed = "none"
    /\ out_file = "absent"
    /\ ppc = "idle"

AvgInit ==
    /\ pixels \in Regions
    /\ dominant_coefficient \in Coefficients
    /\ color_threshold \in Thresholds
    /\ background_color = NoColor
    /\ filtered_pixels = << >>
    /\ color_groups = << >>
    /\ idx = 1
    /\ largest_group = << >>
    /\ avg_color = NoColor
    /\ ret = NoColor
    /\ pc = "start"
    /\ SampleIdle
    /\ PipeIdle

\* lines 15-22
AvgStart ==
    /\ pc = "start"
    /\ background_color' = pixels[1]
    /\ filtered_pixels' = filtered(pixels)
    /\ IF filtered(pixels) = << >>
       THEN /\ ret' = pixels[1]
            /\ pc' = "done"
       ELSE /\ ret' = ret
            /\ pc' = "group"
    /\ UNCHANGED <<pixels, color_groups, idx, largest_group, avg_color>>
    /\ UNCHANGED <<argVars, sampleVars, pipeVars>>

\* lines 26-35, one pixel
AvgGroup ==
    /\ pc = "group"
    /\ idx <= Len(filtered_pixels)
    /\ color_groups' = GroupStep(color_groups, filtered_pixels[idx], color_threshold)
    /\ idx' = idx + 1
    /\ UNCHANGED <<pixels, background_color, filtered_pixels, largest_group,
                   avg_color, ret, pc>>
    /\ UNCHANGED <<argVars, sampleVars, pipeVars>>

\* lines 38-49
AvgLargest ==
    /\ pc = "group"
    /\ idx > Len(filtered_pixels)
    /\ largest_group' = color_groups[LargestIndex(color_groups)]
    /\ avg_color' = AvgColor(color_groups[LargestIndex(color_groups)])
    /\ pc' = "mix"
    /\ UNCHANGED <<pixels, background_color, filtered_pixels, color_groups, idx, ret>>
    /\ UNCHANGED <<argVars, sampleVars, pipeVars>>

\* lines 52-60
AvgMix ==
    /\ pc = "mix"
    /\ ret' = mixed_color(avg_color, dominant_coefficient)
    /\ pc' = "done"
    /\ UNCHANGED <<pixels, background_color, filtered_pixels, color_groups, idx,
                   largest_group, avg_color>>
    /\ UNCHANGED <<argVars, sampleVars, pipeVars>>

AvgNext == AvgStart \/ AvgGroup \/ AvgLargest \/ AvgMix

\* get_average_color on every region, coefficient and threshold of the bounds
SpecAvg == AvgInit /\ [][AvgNext]_vars

(***************************************************************************)
(* pixelate_image, lines 215-235, with sample_colors run cell by cell.     *)
(***************************************************************************)
PipeCoefficients == {Coef09, Coef03}
PipeThresholds == {0, 10}
PixelInRows == (0 - MaxNeg)..(MaxWidth + 1)
NumColorsArgs == {<< >>, <<0>>, <<1>>, <<2>>}

Init ==
    /\ AvgIdle
    /\ SampleIdle
    /\ \/ file = "ok" /\ image \in Images
       \/ file \in {"missing", "corrupt"} /\ image = NoImage
    /\ pixel_in_row \in PixelInRows
    /\ dominant_coefficient \in PipeCoefficients
    /\ color_threshold \in PipeThresholds
    /\ num_colors \in NumColorsArgs
    /\ colors = << >>
    /\ reduced_colors = << >>
    /\ clustered = FALSE
    /\ err = "none"
    /\ failed_at = "none"
    /\ completed = {}
    /\ printed = "none"
    /\ out_file = "absent"
    /\ ppc = "open"

\* An exception leaves the try block for the except clauses.
Raise(exception, step) ==
    /\ err' = exception
    /\ failed_at' = step
    /\ ppc' = "except"

\* line 217: Image.open(input_path)
PipeOpen ==
    /\ ppc = "open"
    /\ IF file = "missing" THEN Raise("FileNotFoundError", "open") /\ UNCHANGED completed
       ELSE IF file = "corrupt"
            THEN Raise("UnidentifiedImageError", "open") /\ UNCHANGED completed
       ELSE /\ ppc' = "sample"
            /\ completed' = completed \cup {"open"}
            /\ UNCHANGED <<err, failed_at>>
    /\ UNCHANGED <<avgVars, argVars, sampleVars, file, image, pixel_in_row, num_colors,
                   colors, reduced_colors, clustered, printed, out_file>>

\* lines 93-101: the geometry of the grid; a zero divisor raises
SampleGeometry ==
    /\ ppc = "sample"
    /\ IF pixel_in_row = 0
          \/ FloorDiv(image.width, pixel_in_row) = 0
          \/ HexHeight(FloorDiv(image.width, pixel_in_row)) = 0
       THEN /\ Raise("ZeroDivisionError", "sample")
            /\ UNCHANGED <<input_pixel_size, samples_per_row, num_rows, colors>>
       ELSE LET size == FloorDiv(image.width, pixel_in_row)
            IN  /\ input_pixel_size' = size
                /\ samples_per_row' = FloorDiv(image.width, size)
                /\ num_rows' = FloorDiv(image.height, HexHeight(size))
                /\ colors' = << >>
                /\ ppc' = "sample_loop"
                /\ UNCHANGED <<err, failed_at>>
    /\ i' = 0
    /\ j' = 0
    /\ row_colors' = << >>
    /\ UNCHANGED <<avgVars, argVars, box, file, image, pixel_in_row, num_colors,
                   reduced_colors, clustered, completed, printed, out_file>>

\* lines 103-117: one cell; the row is appended after its last cell
SampleCell ==
    /\ ppc = "sample_loop"
    /\ i < num_rows
    /\ IF samples_per_row <= 0
       THEN /\ colors' = Append(colors, << >>)
            /\ i' = i + 1
            /\ UNCHANGED <<j, box, row_colors, err, failed_at, ppc>>
       ELSE LET b == Box(i, j, input_pixel_size)
                region == Crop(image, b)
            IN  /\ box' = b
                /\ IF region = << >>
                   THEN /\ Raise("IndexError", "sample")
                        /\ UNCHANGED <<i, j, row_colors, colors>>
                   ELSE LET color == GetAverageColor(region, dominant_coefficient,
                                                     color_threshold)
                        IN  /\ IF j + 1 < samples_per_row
                               THEN /\ row_colors' = Append(row_colors, color)
                                    /\ j' = j + 1
                                    /\ UNCHANGED <<i, colors>>
                               ELSE /\ colors' = Append(colors, Append(row_colors, color))
                                    /\ row_colors' = << >>
                                    /\ j' = 0
                                    /\ i' = i + 1
                            /\ UNCHANGED <<err, failed_at, ppc>>
    /\ UNCHANGED <<avgVars, argVars, input_pixel_size, samples_per_row, num_rows,
                   file, image, pixel_in_row, num_colors, reduced_colors, clustered,
                   completed, printed, out_file>>

\* lines 119, 221-224: sample_colors returns
SampleReturn ==
    /\ ppc = "sample_loop"
    /\ i >= num_rows
    /\ completed' = completed \cup {"sample"}
    /\ ppc' = IF num_colors = << >> THEN "generate" ELSE "reduce"
    /\ UNCHANGED <<avgVars, argVars, sampleVars, file, image, pixel_in_row, num_colors,
                   colors, reduced_colors, clustered, err, failed_at, printed, out_file>>

\* A reduction step that swallows the failure of the clustering and hands
\* the unreduced grid on.
PipeReduceSwallow ==
    /\ ppc = "reduce"
    /\ LET k == num_colors[1]
           U == unique_colors(colors)
       IN  IF no_reduction_needed(colors, k)
           THEN /\ reduced_colors' = colors
                /\ completed' = completed \cup {"reduce"}
                /\ ppc' = "generate"
                /\ UNCHANGED <<clustered, err, failed_at>>
           ELSE IF n_clusters(k) < 1
           THEN /\ err' = "InvalidParameterError"
                /\ failed_at' = "reduce"
                /\ reduced_colors' = colors
                /\ ppc' = "generate"
                /\ UNCHANGED <<clustered, completed>>
           ELSE \E labels \in [U -> 1..n_clusters(k)], down \in SUBSET (1..n_clusters(k)) :
                    /\ reduced_colors' = ReducedGrid(colors, ColorMap(U, labels, down))
                    /\ clustered' = TRUE
                    /\ completed' = completed \cup {"reduce"}
                    /\ ppc' = "generate"
                    /\ UNCHANGED <<err, failed_at>>
    /\ UNCHANGED <<avgVars, argVars, sampleVars, file, image, pixel_in_row, num_colors,
                   colors, printed, out_file>>

\* lines 132-158 and 226: colors = reduce_colors(colors, num_colors)
PipeReduce ==
    /\ ppc = "reduce"
    /\ LET k == num_colors[1]
           U == unique_colors(colors)
       IN  IF no_reduction_needed(colors, k)
           THEN /\ reduced_colors' = colors
                /\ completed' = completed \cup {"reduce"}
                /\ ppc' = "generate"
                /\ UNCHANGED <<clustered, err, failed_at>>
           ELSE IF n_clusters(k) < 1
           THEN /\ Raise("InvalidParameterError", "reduce")
                /\ UNCHANGED <<reduced_colors, clustered, completed>>
           ELSE \E labels \in [U -> 1..n_clusters(k)], down \in SUBSET (1..n_clusters(k)) :
                    /\ reduced_colors' = ReducedGrid(colors, ColorMap(U, labels, down))
                    /\ clustered' = TRUE
                    /\ completed' = completed \cup {"reduce"}
                    /\ ppc' = "generate"
                    /\ UNCHANGED <<err, failed_at>>
    /\ UNCHANGED <<avgVars, argVars, sampleVars, file, image, pixel_in_row, num_colors,
                   colors, printed, out_file>>

\* The grid handed to generate_circle_image (line 230).
Rendered == IF num_colors = << >> THEN colors ELSE reduced_colors

\* lines 174-201: build the canvas and save it; the save may fail on the disk
PipeGenerate ==
    /\ ppc = "generate"
    /\ IF Len(Rendered) = 0
       THEN /\ Raise("IndexError", "generate")
            /\ UNCHANGED <<out_file, completed>>
       ELSE \E outcome \in {"written", "absent", "truncated"} :
                /\ out_file' = outcome
                /\ IF outcome = "written"
                   THEN /\ completed' = completed \cup {"generate"}
                        /\ ppc' = "done"
                        /\ UNCHANGED <<err, failed_at>>
                   ELSE Raise("OSError", "generate") /\ UNCHANGED completed
    /\ UNCHANGED <<avgVars, argVars, sampleVars, file, image, pixel_in_row, num_colors,
                   colors, reduced_colors, clustered, printed>>

\* lines 232-235: both except clauses print and return
PipeExcept ==
    /\ ppc = "except"
    /\ printed' = IF err = "FileNotFoundError" THEN "Error: Input file not found"
                  ELSE "Error processing image"
    /\ ppc' = "done"
    /\ UNCHANGED <<avgVars, argVars, sampleVars, file, image, pixel_in_row, num_colors,
                   colors, reduced_colors, clustered, err, failed_at, completed, out_file>>

Next ==
    \/ PipeOpen
    \/ SampleGeometry
    \/ SampleCell
    \/ SampleReturn
    \/ PipeReduce
    \/ PipeGenerate
    \/ PipeExcept

Spec == Init /\ [][Next]_vars

(***************************************************************************)
(* reduce_colors on every grid and num_colors of the bounds.               *)
(***************************************************************************)
ReduceInit ==
    /\ AvgIdle
    /\ SampleIdle
    /\ dominant_coefficient = Coef05
    /\ color_threshold = 10
    /\ file = "ok"
    /\ image = NoImage
    /\ pixel_in_row = 1
    /\ num_colors \in { <<k>> : k \in (0 - 1)..MaxColors }
    /\ colors \in Grids
    /\ reduced_colors = << >>
    /\ clustered = FALSE
    /\ err = "none"
    /\ failed_at = "none"
    /\ completed = {"open", "sample"}
    /\ printed = "none"
    /\ out_file = "absent"
    /\ ppc = "reduce"

SpecReduce == ReduceInit /\ [][PipeReduce]_vars

(***************************************************************************)
(* Properties of get_average_color, checked under SpecAvg.                 *)
(***************************************************************************)
HasForeground == \E k \in 1..Len(pixels) : pixels[k] # pixels[1]
Uniform == \A k \in 1..Len(pixels) : pixels[k] = pixels[1]

\* The groups of maximal size.
MaxGroups ==
    {g \in 1..Len(color_groups) :
        \A h \in 1..Len(color_groups) : Len(color_groups[h]) <= Len(color_groups[g])}
FirstMaxGroup == CHOOSE g \in MaxGroups : \A h \in MaxGroups : g <= h

\* C1: for a region with a pixel that differs from its top-left pixel, the
\* returned colour has every channel in [0,255] and is the floor-division
\* mean of the largest group, whatever the coefficient: the blend changes
\* nothing.
C1_MeanOfLargestGroup ==
    (pc = "done" /\ HasForeground) =>
        /\ \A c \in Channels : ret[c] \in 0..255
        /\ ret = AvgColor(color_groups[FirstMaxGroup])

\* C2: for a region whose pixels all equal the top-left pixel, the top-left
\* colour itself is returned, and nothing is grouped, averaged or blended.
C2_UniformReturnsBackground ==
    (pc = "done" /\ Uniform) =>
        /\ ret = pixels[1]
        /\ filtered_pixels = << >>
        /\ color_groups = << >>
        /\ largest_group = << >>

\* A uniform region of (3,3,3) under 0.3, the coefficient whose blend of 3
\* is 2, comes back as (3,3,3).
C2_Witness ==
    /\ pc = "done"
    /\ Len(pixels) >= 2
    /\ Uniform
    /\ pixels[1] = <<3, 3, 3>>
    /\ dominant_coefficient = Coef03
    /\ ret = <<3, 3, 3>>

\* Every member is within the threshold of its group's anchor, and no anchor
\* is within the threshold of an earlier anchor.
GroupsWellFormed ==
    \A g \in 1..Len(color_groups) :
        /\ \A m \in 1..Len(color_groups[g]) :
              Similar(color_groups[g][m], color_groups[g][1], color_threshold)
        /\ \A h \in 1..(g - 1) :
              ~Similar(color_groups[g][1], color_groups[h][1], color_threshold)

\* Groups only grow at their end: anchors and earlier members stay.
GroupsOnlyGrow ==
    \A g \in 1..Len(color_groups) :
        /\ g <= Len(color_groups')
        /\ SubSeq(color_groups'[g], 1, Len(color_groups[g])) = color_groups[g]

\* The pixel of this step went to the earliest group whose anchor it is
\* within the threshold of, and opened a new group only if there is none.
FirstMatchStep ==
    (pc = "group" /\ idx' = idx + 1) =>
        LET p == filtered_pixels[idx]
            M == {g \in 1..Len(color_groups) :
                    Similar(p, color_groups[g][1], color_threshold)}
        IN  IF M = {}
            THEN color_groups' = color_groups \o << <<p>> >>
            ELSE \E g \in M :
                    /\ \A h \in M : g <= h
                    /\ Len(color_groups') = Len(color_groups)
                    /\ color_groups'[g] = color_groups[g] \o <<p>>
                    /\ \A h \in 1..Len(color_groups) :
                          h # g => color_groups'[h] = color_groups[h]

\* C3: pixels are taken in scan order and each joins the earliest-created
\* group whose anchor is within color_threshold on all channels, else opens
\* a group; so members stay within the threshold of their anchor, anchors
\* never change, and no anchor is within the threshold of an earlier one.
C3_FirstMatchGrouping ==
    /\ []GroupsWellFormed
    /\ [][GroupsOnlyGrow /\ FirstMatchStep]_vars

Distance(p, q) == Abs(p[1] - q[1]) + Abs(p[2] - q[2]) + Abs(p[3] - q[3])

\* The pixel just placed joined group g although the anchor of a later
\* group h, created before the pixel was read, matches it and is closer.
C3_Witness ==
    /\ pc = "group"
    /\ idx >= 4
    /\ \E g \in 1..Len(color_groups), h \in 1..Len(color_groups) :
          LET p == filtered_pixels[idx - 1]
          IN  /\ g < h
              /\ \A k \in 1..(idx - 2) : filtered_pixels[k] # p
              /\ Len(color_groups[g]) >= 2
              /\ color_groups[g][Len(color_groups[g])] = p
              /\ Similar(p, color_groups[h][1], color_threshold)
              /\ Distance(p, color_groups[h][1]) < Distance(p, color_groups[g][1])

\* C4: when several groups share the maximal count, the first created one is
\* selected and the returned colour is its mean.
C4_FirstLargestOnTie ==
    (pc = "done" /\ Cardinality(MaxGroups) >= 2) =>
        /\ largest_group = color_groups[FirstMaxGroup]
        /\ ret = AvgColor(color_groups[FirstMaxGroup])

(***************************************************************************)
(* Properties of reduce_colors, checked under SpecReduce.                  *)
(***************************************************************************)
Returned == ppc # "reduce"
SameShape(a, b) ==
    /\ Len(a) = Len(b)
    /\ \A r \in 1..Len(a) : Len(a[r]) = Len(b[r])

\* C5: when the grid has at most num_colors distinct colours, reduce_colors
\* returns it as it is, shape and cells, and no clustering runs.
C5_IdentityWhenFewColors ==
    (Returned /\ Cardinality(unique_colors(colors)) <= num_colors[1]) =>
        /\ err = "none"
        /\ reduced_colors = colors
        /\ ~clustered

\* A grid with exactly as many distinct colours as num_colors.
C5_Witness ==
    /\ Returned
    /\ num_colors[1] = 3
    /\ Cardinality(unique_colors(colors)) = 3
    /\ reduced_colors = colors

\* C6: for num_colors = k >= 1 the returned grid has the rows and row lengths
\* of the input, at most k distinct colours, and equal input cells give
\* equal output cells.
C6_ReducedGridBounded ==
    (Returned /\ num_colors[1] >= 1) =>
        /\ err = "none"
        /\ SameShape(reduced_colors, colors)
        /\ Cardinality(unique_colors(reduced_colors)) <= num_colors[1]
        /\ \A r1 \in 1..Len(colors), r2 \in 1..Len(colors) :
              \A c1 \in 1..Len(colors[r1]), c2 \in 1..Len(colors[r2]) :
                  colors[r1][c1] = colors[r2][c2]
                      => reduced_colors[r1][c1] = reduced_colors[r2][c2]

\* Three colours clustered down to two, with a colour that occurs twice.
C6_Witness ==
    /\ Returned
    /\ clustered
    /\ num_colors[1] = 2
    /\ Cardinality(unique_colors(colors)) = 3
    /\ Cardinality(unique_colors(reduced_colors)) = 2
    /\ Len(colors) = 2
    /\ colors[1][1] = colors[2][2]

(***************************************************************************)
(* Properties of sample_colors and pixelate_image, checked under Spec.     *)
(***************************************************************************)
Sampled == "sample" \in completed

\* C7: with pixel_in_row >= the image width, sampling reports a
\* ConfigurationError, not a division fault.
C7_ZeroCellSizeIsConfigurationError ==
    (file = "ok" /\ pixel_in_row >= image.width /\ ppc \notin {"open", "sample"}) =>
        /\ failed_at = "sample"
        /\ err = "ConfigurationError"

\* The truncation and the rounding of cell_width * 0.866, in exact arithmetic.
TruncHex(w) == (866 * w) \div 1000
RoundHex(w) == (866 * w + 500) \div 1000

GridIs(rows, columns) ==
    /\ Len(colors) = rows
    /\ \A r \in 1..Len(colors) : Len(colors[r]) = columns

C9_WriteOnlyAfterSuccess ==
    /\ out_file # "absent" =>
          /\ {"open", "sample"} \subseteq completed
          /\ num_colors # << >> => "reduce" \in completed
          /\ failed_at \notin {"open", "sample", "reduce"}
    /\ failed_at \in {"open", "sample", "reduce"} =>
          /\ out_file = "absent"
          /\ ppc \in {"except", "done"}
          /\ completed = CASE failed_at = "open" -> {}
                           [] failed_at = "sample" -> {"open"}
                           [] failed_at = "reduce" -> {"open", "sample"}

\* Reduction of a sampled, non-empty grid raised, and the run ended without
\* an output file.
C9_Witness ==
    /\ ppc = "done"
    /\ failed_at = "reduce"
    /\ Len(colors) >= 1
    /\ printed = "Error processing image"
    /\ out_file = "absent"

InLoopOrAfter == ppc \notin {"open", "sample"} /\ failed_at # "open"

\* The crop box of the cell in row r and column c, counted from 1.
CellBox(r, c) ==
    << (c - 1) * input_pixel_size,
       (r - 1) * TruncHex(input_pixel_size),
       c * input_pixel_size,
       r * TruncHex(input_pixel_size) >>

\* C10: every crop box requested lies within the image and is non-empty;
\* cell [i][j] is the colour of the region at column offset j*cell_width and
\* row offset i*cell_height; all rows have the same length.
C10_CropsWithinImage ==
    InLoopOrAfter =>
        /\ box # << >> =>
              /\ 0 <= box[1] /\ box[1] < box[3] /\ box[3] <= image.width
              /\ 0 <= box[2] /\ box[2] < box[4] /\ box[4] <= image.height
              /\ Len(Crop(image, box)) >= 1
        /\ \A r \in 1..Len(colors) :
              /\ Len(colors[r]) = Len(colors[1])
              /\ \A c \in 1..Len(colors[r]) :
                    colors[r][c] = GetAverageColor(Crop(image, CellBox(r, c)),
                                                   dominant_coefficient, color_threshold)
        /\ \A c \in 1..Len(row_colors) :
              row_colors[c] = GetAverageColor(Crop(image, CellBox(Len(colors) + 1, c)),
                                              dominant_coefficient, color_threshold)

\* The crop of the last cell of a grid of several rows and columns reaches
\* the bottom-right corner of the image.
C10_Witness ==
    /\ ppc = "sample_loop"
    /\ Len(colors) >= 2
    /\ Len(colors[1]) >= 2
    /\ box[1] > 0
    /\ box[2] > 0
    /\ box[3] = image.width
    /\ box[4] = image.height
    /\ colors[1][1] # colors[1][2]

====
